---- MODULE Spec2Model ----
(***************************************************************************)
(* Model of the credit-card statement pipeline:                            *)
(*   text_parser.format_extracted_amount   (pure function, SpecAmt)        *)
(*   text_parser.extract_financial_details (pure function, SpecExtract)    *)
(*   email_processor.process_emails        (state machine, Spec)           *)
(* Text is modelled as a sequence of one-character strings so that the     *)
(* regular-expression cleaning and float() parsing are computed, not       *)
(* assumed.                                                                *)
(***************************************************************************)
EXTENDS Integers, Sequences, FiniteSets, TLC

\* ---------------------------------------------------------------- bounds
MaxAmtLen == 3
MaxInbox == 3
MaxCap == 3
MaxAtt == 2

\* ------------------------------------------------------- python values
\* A JSON / Python scalar: t is the type tag; (m, e) is the number
\* m * 10^(-e) for t = "num"; s is the text for t = "str".
Absent == [t |-> "absent", m |-> 0, e |-> 0, s |-> <<>>]
Null == [t |-> "null", m |-> 0, e |-> 0, s |-> <<>>]
StrV(s) == [t |-> "str", m |-> 0, e |-> 0, s |-> s]

RECURSIVE Normalize(_, _)
Normalize(m, e) ==
  IF m = 0 THEN <<0, 0>>
  ELSE IF e > 0 /\ m % 10 = 0 THEN Normalize(m \div 10, e - 1)
  ELSE <<m, e>>

NumV(m, e) ==
  LET n == Normalize(m, e)
  IN [t |-> "num", m |-> n[1], e |-> n[2], s |-> <<>>]

\* ------------------------------------------------------ text helpers
Digits == {"0", "1", "2", "3", "4", "5", "6", "7", "8", "9"}
Whitespace == {" "}
\* The character class of the first cleaning pass, [₹$€£Rs\.,\s]; the three
\* non-ASCII currency signs are written as the symbolic characters "rupee",
\* "euro" and "pound".
CurrencyClass ==
  {"rupee", "$", "euro", "pound", "R", "s", ".", ","} \cup Whitespace

DigitVal(c) ==
  CASE c = "0" -> 0 [] c = "1" -> 1 [] c = "2" -> 2 [] c = "3" -> 3
    [] c = "4" -> 4 [] c = "5" -> 5 [] c = "6" -> 6 [] c = "7" -> 7
    [] c = "8" -> 8 [] c = "9" -> 9

RECURSIVE RemoveChars(_, _)
RemoveChars(s, class) ==
  IF s = <<>> THEN <<>>
  ELSE IF Head(s) \in class THEN RemoveChars(Tail(s), class)
  ELSE <<Head(s)>> \o RemoveChars(Tail(s), class)

RECURSIVE KeepChars(_, _)
KeepChars(s, class) ==
  IF s = <<>> THEN <<>>
  ELSE IF Head(s) \in class THEN <<Head(s)>> \o KeepChars(Tail(s), class)
  ELSE KeepChars(Tail(s), class)

RECURSIVE LStrip(_)
LStrip(s) ==
  IF s # <<>> /\ Head(s) \in Whitespace THEN LStrip(Tail(s)) ELSE s

RECURSIVE RStrip(_)
RStrip(s) ==
  IF s # <<>> /\ s[Len(s)] \in Whitespace
  THEN RStrip(SubSeq(s, 1, Len(s) - 1)) ELSE s

Strip(s) == RStrip(LStrip(s))

RECURSIVE DigitsToInt(_)
DigitsToInt(s) ==
  IF s = <<>> THEN 0
  ELSE 10 * DigitsToInt(SubSeq(s, 1, Len(s) - 1)) + DigitVal(s[Len(s)])

\* float(text) for text over digits, ".", "-" and non-numeric letters:
\* optional leading minus, digits with at most one decimal point and at
\* least one digit; anything else raises ValueError (ok = FALSE).
PyFloat(text) ==
  LET neg == text # <<>> /\ Head(text) = "-"
      body == IF neg THEN Tail(text) ELSE text
      dots == {i \in 1..Len(body) : body[i] = "."}
      digs == KeepChars(body, Digits)
      wellFormed == /\ \A i \in 1..Len(body) : body[i] \in Digits \cup {"."}
                    /\ Cardinality(dots) <= 1
                    /\ digs # <<>>
      frac == IF dots = {} THEN 0
              ELSE Len(body) - (CHOOSE i \in dots : TRUE)
      mag == DigitsToInt(digs)
  IN IF wellFormed
     THEN [ok |-> TRUE, v |-> NumV(IF neg THEN 0 - mag ELSE mag, frac)]
     ELSE [ok |-> FALSE, v |-> Null]

\* text_parser.format_extracted_amount
format_extracted_amount(amount_str) ==
  IF amount_str.t = "num" THEN NumV(amount_str.m, amount_str.e)
  ELSE IF amount_str.t = "str" THEN
    LET cleaned_str == Strip(RemoveChars(amount_str.s, CurrencyClass))
        first == PyFloat(cleaned_str)
        less_cleaned_str == Strip(KeepChars(amount_str.s, Digits \cup {"."}))
        second == PyFloat(less_cleaned_str)
    IN IF first.ok THEN first.v
       ELSE IF less_cleaned_str # <<>> /\ second.ok THEN second.v
       ELSE amount_str
  ELSE amount_str

\* ------------------------------------------------- extractor records
Keys == {"total_amount_due", "minimum_amount_due", "card_last_4_digits"}
Essential == {"total_amount_due", "minimum_amount_due"}

\* A dict over Keys; a key mapped to Absent is not in the dict.
EmptyDict == [k \in Keys |-> Absent]
DictTruthy(d) == \E k \in Keys : d[k].t # "absent"
\* dict.get(k) is not None
GetNotNone(d, k) == d[k].t \notin {"absent", "null"}
\* dict.update(other)
DictUpdate(d, other) ==
  [k \in Keys |-> IF other[k].t # "absent" THEN other[k] ELSE d[k]]

\* A parsed JSON document / a Python object returned by the extractor:
\* k is "dict", "list", "str", "number" or "scalar" (true, false, null);
\* d is the content of a dict; ne says whether a list or str is non-empty.
JDict(d) == [k |-> "dict", d |-> d, ne |-> DictTruthy(d)]
JList(ne) == [k |-> "list", d |-> EmptyDict, ne |-> ne]
JStr(ne) == [k |-> "str", d |-> EmptyDict, ne |-> ne]
JNumber == [k |-> "number", d |-> EmptyDict, ne |-> TRUE]
JScalar == [k |-> "scalar", d |-> EmptyDict, ne |-> FALSE]
EmptyMapping == JDict(EmptyDict)

\* bool(obj)
Truthy(obj) == obj.ne

\* The text of a backend response is a sequence of segments: a code fence
\* with or without the json tag, whitespace, a JSON document, or other
\* prose (seg = "prose") that json.loads rejects.
FenceJson == [seg |-> "fence_json", doc |-> JScalar]
Fence == [seg |-> "fence", doc |-> JScalar]
Ws == [seg |-> "ws", doc |-> JScalar]
Prose == [seg |-> "prose", doc |-> JScalar]
Doc(j) == [seg |-> "json", doc |-> j]

RECURSIVE LStripSegs(_)
LStripSegs(r) ==
  IF r # <<>> /\ Head(r).seg = "ws" THEN LStripSegs(Tail(r)) ELSE r

RECURSIVE RStripSegs(_)
RStripSegs(r) ==
  IF r # <<>> /\ r[Len(r)].seg = "ws"
  THEN RStripSegs(SubSeq(r, 1, Len(r) - 1)) ELSE r

StripSegs(r) == RStripSegs(LStripSegs(r))

\* lines 101-110: strip, drop a leading fence, drop a trailing fence, strip
CleanResponse(text) ==
  LET a == StripSegs(text)
      b == IF a # <<>> /\ Head(a).seg \in {"fence_json", "fence"}
           THEN Tail(a) ELSE a
      c == IF b # <<>> /\ b[Len(b)].seg = "fence"
           THEN SubSeq(b, 1, Len(b) - 1) ELSE b
  IN StripSegs(c)

\* json.loads: exactly one JSON document, whitespace around it allowed
JsonLoads(text) ==
  LET body == SelectSeq(text, LAMBDA x : x.seg # "ws")
  IN IF Len(body) = 1 /\ body[1].seg = "json"
     THEN [ok |-> TRUE, v |-> body[1].doc]
     ELSE [ok |-> FALSE, v |-> JScalar]

\* lines 123-126: 'key in details' raises TypeError for a number or a
\* scalar, is a membership / substring test (False) for a list or a str
FormatAmounts(details) ==
  IF details.k = "dict"
  THEN JDict([k \in Keys |->
         IF k \in Essential /\ details.d[k].t \notin {"absent", "null"}
         THEN format_extracted_amount(details.d[k]) ELSE details.d[k]])
  ELSE details

\* text_parser.extract_financial_details; response.raises models a failed
\* backend call (or response.text raising), caught by 'except Exception'
extract_financial_details(text_content, api_key, response) ==
  IF text_content # "text" THEN EmptyMapping
  ELSE IF ~api_key THEN EmptyMapping
  ELSE IF response.raises THEN EmptyMapping
  ELSE LET cleaned_response_text == CleanResponse(response.text)
           parsed == JsonLoads(cleaned_response_text)
       IN IF cleaned_response_text = <<>> THEN EmptyMapping
          ELSE IF ~parsed.ok THEN EmptyMapping
          ELSE IF parsed.v.k \in {"number", "scalar"} THEN EmptyMapping
          ELSE FormatAmounts(parsed.v)

\* --------------------------------------------------- input domains
C1234 == <<"1", "2", "3", "4">>
C9999 == <<"9", "9", "9", "9">>
A6225 == <<"6", ",", "2", "2", "5", ".", "0", "0">>
RsA6225 == <<"R", "s", ".", " ">> \o A6225

\* values the backend may put in an amount field / in card_last_4_digits
RawAmounts == {Absent, Null, NumV(6225, 0), StrV(<<"x", "x">>)}
RawCards == {Absent, Null, StrV(<<>>), StrV(C1234), StrV(C9999)}
RawRecords ==
  {[k \in Keys |-> IF k = "total_amount_due" THEN t
                   ELSE IF k = "minimum_amount_due" THEN m ELSE c] :
     t \in RawAmounts, m \in RawAmounts, c \in RawCards}
JsonDocs ==
  {JDict(r) : r \in RawRecords}
    \cup {JList(TRUE), JList(FALSE), JStr(TRUE), JStr(FALSE), JNumber, JScalar}

Resp(text) == [raises |-> FALSE, text |-> text]
BackendFailure == [raises |-> TRUE, text |-> <<>>]
\* responses seen by the pipeline: a bare document, a fenced document, an
\* empty fenced block, prose, or a failed call
BackendResponses ==
  {Resp(<<Doc(j)>>) : j \in JsonDocs}
    \cup {Resp(<<FenceJson, Ws, Doc(JDict(r)), Ws, Fence>>) :
            r \in {x \in RawRecords : x["card_last_4_digits"] = Absent}}
    \cup {Resp(<<FenceJson, Ws, Fence>>), Resp(<<Prose>>), BackendFailure}

\* A mailbox of at most one message is explored with every response above,
\* every user card and every attachment list; a larger mailbox with three
\* representative records (complete, total only, minimum only), a JSON
\* list, a failed call, one user card and at most one attachment.
Rec(t, m, c) ==
  [k \in Keys |-> IF k = "total_amount_due" THEN t
                  ELSE IF k = "minimum_amount_due" THEN m ELSE c]
FewRecords ==
  {Rec(NumV(6225, 0), NumV(6225, 0), Absent), Rec(NumV(6225, 0), Null, Absent),
   Rec(Absent, NumV(6225, 0), StrV(C9999))}
FewResponses ==
  {Resp(<<Doc(JDict(r))>>) : r \in FewRecords}
    \cup {Resp(<<Doc(JList(TRUE))>>), BackendFailure}
ResponsesFor(n) == IF n <= 1 THEN BackendResponses ELSE FewResponses

\* user_pii["credit_card_number"]
UserCards == {<<>>, <<"3", "4">>, C1234, <<"5">> \o C1234}
\* user_pii["full_name"], user_pii["dob"]: None, or the kind of string
FullNames == {"None", "empty", "name"}
Dobs == {"None", "valid", "malformed"}

\* config.MAX_EMAILS_TO_PROCESS_PER_RUN: config.py defines no such
\* attribute (defined = FALSE); a deployment that sets it has defined = TRUE
NoAttr == [defined |-> FALSE, n |-> 0]
CapValues == {NoAttr} \cup {[defined |-> TRUE, n |-> n] : n \in 0..MaxCap}

CardsFor(n) == IF n <= 1 THEN UserCards ELSE {C1234}

AttKinds == {"nopayload", "pdf"}
Attachments == UNION {[1..n -> AttKinds] : n \in 0..MaxAtt}
AttachmentsFor(n) == IF n <= 1 THEN Attachments ELSE {<<>>, <<"pdf">>}
\* body of a fetched message: no text, text, or a part whose declared
\* charset is unknown to the codec registry (decode raises LookupError)
BodyKinds == {"empty", "text", "badcharset"}
PdfTexts == {"none", "blank", "text"}

\* ------------------------------------------------------ python slices
Min(a, b) == IF a < b THEN a ELSE b
Max(a, b) == IF a > b THEN a ELSE b

Reverse_m(q) == q

RECURSIVE Reverse(_)
Reverse(q) == IF q = <<>> THEN <<>> ELSE Reverse(Tail(q)) \o <<Head(q)>>

\* q[-c:] for c >= 0; note q[-0:] is q[0:], the whole list
SliceLast(q, c) ==
  IF c = 0 THEN q ELSE SubSeq(q, Max(Len(q) - c, 0) + 1, Len(q))

RECURSIVE SortedSeq(_)
SortedSeq(S) ==
  IF S = {} THEN <<>>
  ELSE LET x == CHOOSE y \in S : \A z \in S : y <= z
       IN <<x>> \o SortedSeq(S \ {x})

\* ------------------------------------------------------------ state
VARIABLES
  pc,                         \* position in process_emails
  IMAP_CREDS,                 \* config.IMAP_USER and config.IMAP_PASSWORD set
  GEMINI_API_KEY,             \* config.GEMINI_API_KEY set
  emails_to_process_count,    \* min(len(email_ids), configured cap)
  conn,                       \* the IMAP connection: "none" before it is
                              \* made, then its state "NONAUTH", "SELECTED"
                              \* or "LOGOUT"
  search_status,              \* status of the subject search, "" before it
  ret,                        \* the value returned by process_emails
  inbox,                      \* number of messages in the inbox (ids 1..inbox)
  headers_fetched,            \* ids whose headers the debug listing fetched
  email_ids,                  \* ids returned by the subject search, ascending
  pw_generated,               \* generate_potential_passwords has returned
  credit_card_number,         \* user_pii["credit_card_number"]
  queue,                      \* ids the for loop has still to visit
  full_fetched,               \* ids fetched with (RFC822)
  current_email_data,         \* [id, details, source] of the email in hand
  body,                       \* body kind of the message in hand
  atts,                       \* PDF attachments of the message still to visit
  pdf_details,                \* the extractor's record for the PDF in hand
  att_no,                     \* position of the next attachment in the message
  all_extracted_data,         \* the result list
  extractor_called,           \* extract_financial_details reached the backend
  amtIn, amtOut, amtDone,     \* format_extracted_amount: argument, result
  exText, exKey, exResp, exOut, exDone, \* extract_financial_details
  apiResponse,                \* what the API handler sends to its caller
  pwIn, pwOut, pwDone,        \* generate_potential_passwords: arguments,
                              \* outcome
  pdfDoc, pdfPasswords,       \* extract_text_from_pdf: the document behind
                              \* pdf_bytes, potential_passwords
  pdfPc, pdfNext,             \* its position, index of the next candidate
  attempts,                   \* the decrypt calls made so far, in order
  pdfOut                      \* its return value

pipeVars == <<pc, IMAP_CREDS, GEMINI_API_KEY, emails_to_process_count,
              conn, search_status, ret, inbox, headers_fetched, email_ids, pw_generated,
              credit_card_number, queue, full_fetched, current_email_data,
              body, atts, att_no, pdf_details, all_extracted_data,
              extractor_called, apiResponse>>
amtVars == <<amtIn, amtOut, amtDone>>
exVars == <<exText, exKey, exResp, exOut, exDone>>
pwVars == <<pwIn, pwOut, pwDone>>
pdfVars == <<pdfDoc, pdfPasswords, pdfPc, pdfNext, attempts, pdfOut>>
vars == <<pipeVars, amtVars, exVars, pwVars, pdfVars>>

NoReturn == [kind |-> "none", handler |-> "", origin |-> ""]
ListReturn == [kind |-> "list", handler |-> "", origin |-> ""]
ErrorReturn(handler, origin) ==
  [kind |-> "error", handler |-> handler, origin |-> origin]

Unknown == [tag |-> "unknown", att |-> 0]
NoEmail == [id |-> 0, details |-> EmptyDict, source |-> Unknown]

AmtIdle == amtIn = Null /\ amtOut = Null /\ amtDone = FALSE
ExIdle ==
  /\ exText = "empty" /\ exKey = FALSE /\ exResp = BackendFailure
  /\ exOut = EmptyMapping /\ exDone = FALSE
NoResponse == [kind |-> "none", status |-> 0, body |-> <<>>]
NoArguments ==
  [full_name |-> Null, dob_str |-> Null, mobile_number |-> Null,
   credit_card_number |-> Null]
NoOutcome == [raised |-> "", passwords |-> <<>>]
PwIdle == pwIn = NoArguments /\ pwOut = NoOutcome /\ pwDone = FALSE
NoDocument ==
  [readable |-> FALSE, encrypted |-> FALSE, accepts |-> {}, raises |-> {},
   pages |-> "ok"]
PdfIdle ==
  /\ pdfDoc = NoDocument /\ pdfPasswords = <<>> /\ pdfPc = "idle"
  /\ pdfNext = 0 /\ attempts = <<>> /\ pdfOut = "unset"
PipeIdle ==
  /\ apiResponse = NoResponse
  /\ pc = "idle" /\ IMAP_CREDS = FALSE /\ GEMINI_API_KEY = FALSE
  /\ emails_to_process_count = 0
  /\ conn = "none" /\ search_status = "" /\ ret = NoReturn /\ inbox = 0 /\ headers_fetched = {}
  /\ email_ids = <<>> /\ pw_generated = FALSE /\ credit_card_number = <<>>
  /\ queue = <<>> /\ full_fetched = {} /\ current_email_data = NoEmail
  /\ body = "empty" /\ atts = <<>> /\ att_no = 0 /\ pdf_details = EmptyDict
  /\ all_extracted_data = <<>> /\ extractor_called = FALSE

\* state at entry of process_emails (lines 55-56)
Init ==
  /\ pc = "start"
  /\ IMAP_CREDS \in BOOLEAN
  /\ GEMINI_API_KEY \in BOOLEAN
  /\ emails_to_process_count = 0
  /\ conn = "none" /\ search_status = "" /\ ret = NoReturn /\ inbox = 0 /\ headers_fetched = {}
  /\ email_ids = <<>> /\ pw_generated = FALSE /\ credit_card_number = <<>>
  /\ queue = <<>> /\ full_fetched = {} /\ current_email_data = NoEmail
  /\ body = "empty" /\ atts = <<>> /\ att_no = 0 /\ pdf_details = EmptyDict
  /\ all_extracted_data = <<>> /\ extractor_called = FALSE
  /\ apiResponse = NoResponse
  /\ AmtIdle /\ ExIdle /\ PwIdle /\ PdfIdle

\* an exception reaches one of the two handlers at lines 342-352: the
\* function returns an error object; neither handler calls logout
Raise(handler, origin) ==
  /\ pc' = "done"
  /\ ret' = ErrorReturn(handler, origin)

\* lines 58-60
CheckCredentials ==
  /\ pc = "start"
  /\ IF ~IMAP_CREDS
     THEN pc' = "done" /\ ret' = ErrorReturn("config", "credentials")
     ELSE pc' = "connect" /\ ret' = ret
  /\ UNCHANGED <<IMAP_CREDS, GEMINI_API_KEY, search_status, emails_to_process_count,
                 conn, inbox, headers_fetched, email_ids, pw_generated,
                 credit_card_number, queue, full_fetched, current_email_data,
                 body, atts, att_no, pdf_details, all_extracted_data, extractor_called,
                 apiResponse, amtVars, exVars, pwVars, pdfVars>>

\* lines 66-71: IMAP4_SSL(...) raises OSError when the host is unreachable;
\* login raises IMAP4.error on bad credentials, after the socket is open
Connect ==
  /\ pc = "connect"
  /\ \E outcome \in {"ok", "unreachable", "auth_failed"} :
       CASE outcome = "unreachable" ->
              Raise("unexpected", "connect") /\ conn' = conn
         [] outcome = "auth_failed" ->
              Raise("imap_error", "login") /\ conn' = "NONAUTH"
         [] outcome = "ok" ->
              pc' = "listing" /\ conn' = "SELECTED" /\ ret' = ret
  /\ UNCHANGED <<IMAP_CREDS, GEMINI_API_KEY, search_status, emails_to_process_count,
                 inbox, headers_fetched, email_ids, pw_generated,
                 credit_card_number, queue, full_fetched, current_email_data,
                 body, atts, att_no, pdf_details, all_extracted_data, extractor_called,
                 apiResponse, amtVars, exVars, pwVars, pdfVars>>

\* lines 82, 86: the debug listing looks at the latest 3 messages
DebugLogCount == 3

\* lines 73-116: search ALL, then fetch the headers of the latest messages;
\* any exception ends the listing and is swallowed.  issued is the number
\* of header fetches sent before the listing ended.
PreliminaryListing ==
  /\ pc = "listing"
  /\ \E n \in 0..MaxInbox, status_all \in {"OK", "NO"} :
       LET num_emails_to_log_debug == Min(n, DebugLogCount)
       IN \E issued \in IF status_all = "OK" /\ n > 0
                        THEN 1..num_emails_to_log_debug ELSE {0} :
            /\ inbox' = n
            /\ headers_fetched' = {i \in 1..n : i > n - issued}
  /\ pc' = "search"
  /\ UNCHANGED <<IMAP_CREDS, GEMINI_API_KEY, search_status, emails_to_process_count,
                 conn, ret, email_ids, pw_generated,
                 credit_card_number, queue, full_fetched, current_email_data,
                 body, atts, att_no, pdf_details, all_extracted_data, extractor_called,
                 apiResponse, amtVars, exVars, pwVars, pdfVars>>

SearchFailed_m(status) == FALSE
\* line 149
SearchFailed(status) == status # "OK"

\* lines 145-160: the subject search; ids come back in ascending order
Search ==
  /\ pc = "search"
  /\ \E status \in {"OK", "NO", "raise"}, matching \in SUBSET (1..inbox) :
       IF status = "raise"
       THEN /\ Raise("imap_error", "search")
            /\ UNCHANGED <<conn, email_ids, search_status>>
       ELSE IF SearchFailed(status)
       THEN /\ search_status' = status
            /\ conn' = "LOGOUT"
            /\ pc' = "done"
            /\ ret' = ErrorReturn("search_status", "search")
            /\ UNCHANGED email_ids
       ELSE IF matching = {}
       THEN /\ search_status' = status
            /\ conn' = "LOGOUT"
            /\ pc' = "done"
            /\ ret' = ListReturn
            /\ UNCHANGED email_ids
       ELSE /\ search_status' = status
            /\ email_ids' = SortedSeq(matching)
            /\ pc' = "genpw"
            /\ UNCHANGED <<conn, ret>>
  /\ UNCHANGED <<IMAP_CREDS, GEMINI_API_KEY, emails_to_process_count,
                 inbox, headers_fetched, pw_generated,
                 credit_card_number, queue, full_fetched, current_email_data,
                 body, atts, att_no, pdf_details, all_extracted_data, extractor_called,
                 apiResponse, amtVars, exVars, pwVars, pdfVars>>

\* password_utils.generate_potential_passwords raises AttributeError on
\* full_name.lower() when full_name is None (line 18) and TypeError in
\* strptime when dob_str is None (line 28: only ValueError is caught)
generate_potential_passwords_raises(full_name, dob_str) ==
  full_name = "None" \/ dob_str = "None"

\* lines 162-168
GeneratePasswords ==
  /\ pc = "genpw"
  /\ \E full_name \in FullNames, dob \in Dobs, card \in CardsFor(inbox) :
       IF generate_potential_passwords_raises(full_name, dob)
       THEN /\ Raise("unexpected", "passwords")
            /\ UNCHANGED <<pw_generated, credit_card_number>>
       ELSE /\ pw_generated' = TRUE
            /\ credit_card_number' = card
            /\ pc' = "cap"
            /\ ret' = ret
  /\ UNCHANGED <<IMAP_CREDS, GEMINI_API_KEY, search_status, emails_to_process_count,
                 conn, inbox, headers_fetched, email_ids,
                 queue, full_fetched, current_email_data,
                 body, atts, att_no, pdf_details, all_extracted_data, extractor_called,
                 apiResponse, amtVars, exVars, pwVars, pdfVars>>

\* lines 173-176: reading config.MAX_EMAILS_TO_PROCESS_PER_RUN raises
\* AttributeError when config has no such attribute; otherwise the loop
\* visits reversed(email_ids[-emails_to_process_count:])
SelectEmails ==
  /\ pc = "cap"
  /\ \E MAX_EMAILS_TO_PROCESS_PER_RUN \in CapValues :
       IF ~MAX_EMAILS_TO_PROCESS_PER_RUN.defined
       THEN /\ Raise("unexpected", "config_cap")
            /\ UNCHANGED <<queue, emails_to_process_count>>
       ELSE /\ emails_to_process_count' =
                 Min(Len(email_ids), MAX_EMAILS_TO_PROCESS_PER_RUN.n)
            /\ queue' = Reverse(SliceLast(email_ids,
                                          emails_to_process_count'))
            /\ pc' = "fetch"
            /\ ret' = ret
  /\ UNCHANGED <<IMAP_CREDS, GEMINI_API_KEY, search_status,
                 conn, inbox, headers_fetched, email_ids, pw_generated,
                 credit_card_number, full_fetched, current_email_data,
                 body, atts, att_no, pdf_details, all_extracted_data, extractor_called,
                 apiResponse, amtVars, exVars, pwVars, pdfVars>>

\* lines 262-263, 319-320, 330-331: both essential fields are not None
EssentialsInBody_m(d) == FALSE
\* lines 262-264
EssentialsInBody(d) ==
  GetNotNone(d, "total_amount_due") /\ GetNotNone(d, "minimum_amount_due")
EssentialsAfterPdf(d) ==
  GetNotNone(d, "total_amount_due") /\ GetNotNone(d, "minimum_amount_due")
EssentialsPresent_m(d) ==
  GetNotNone(d, "total_amount_due") \/ GetNotNone(d, "minimum_amount_due")
EssentialsPresent(d) ==
  /\ DictTruthy(d)
  /\ GetNotNone(d, "total_amount_due")
  /\ GetNotNone(d, "minimum_amount_due")

\* str(x) of a field value; a missing key takes the default ""
PyStr(v) ==
  IF v.t = "str" THEN v.s
  ELSE IF v.t = "null" THEN <<"N", "o", "n", "e">>
  ELSE <<>>

\* line 300
StatementCardLast4(record) ==
  Strip(PyStr(record["card_last_4_digits"]))

\* line 301; None is modelled by the empty text (both are falsy)
UserCardLast4(card) ==
  IF card # <<>> /\ Len(card) >= 4
  THEN SubSeq(card, Len(card) - 3, Len(card)) ELSE <<>>

CardDecision_m(user_card_last4, statement_card_last4) ==
  IF user_card_last4 # <<>> /\ statement_card_last4 # <<>>
     /\ statement_card_last4 = user_card_last4
  THEN "verified" ELSE "unverified"
\* lines 303-312
CardDecision(user_card_last4, statement_card_last4) ==
  IF user_card_last4 # <<>> /\ statement_card_last4 # <<>>
     /\ statement_card_last4 = user_card_last4
  THEN "verified"
  ELSE IF user_card_last4 = <<>> \/ statement_card_last4 = <<>>
  THEN "unverified"
  ELSE "mismatch"

BodySource == [tag |-> "email_body_gemini", att |-> 0]
PdfSource(n) == [tag |-> "pdf_gemini", att |-> n]
PdfUnverifiedSource_m(n) == Unknown
PdfUnverifiedSource(n) == [tag |-> "pdf_gemini_card_unverified", att |-> n]

\* lines 176-207: next id of the loop, full fetch, skip on a bad fetch
FetchEmail ==
  /\ pc = "fetch"
  /\ queue # <<>>
  /\ LET email_id == Head(queue)
         fresh == [id |-> email_id, details |-> EmptyDict, source |-> Unknown]
     IN /\ full_fetched' = full_fetched \cup {email_id}
        /\ \E outcome \in {"ok", "status_not_ok", "no_data", "no_bytes",
                            "raise"} :
             CASE outcome = "raise" ->
                    /\ Raise("imap_error", "fetch")
                    /\ UNCHANGED <<queue, current_email_data, body, atts,
                                   att_no>>
               [] outcome \in {"status_not_ok", "no_data", "no_bytes"} ->
                    /\ queue' = Tail(queue)
                    /\ current_email_data' = NoEmail
                    /\ UNCHANGED <<pc, ret, body, atts, att_no>>
               [] outcome = "ok" ->
                    /\ \E b \in BodyKinds, a \in AttachmentsFor(inbox) :
                         body' = b /\ atts' = a
                    /\ att_no' = 1
                    /\ current_email_data' = fresh
                    /\ pc' = "body"
                    /\ UNCHANGED <<queue, ret>>
  /\ UNCHANGED <<IMAP_CREDS, GEMINI_API_KEY, search_status, emails_to_process_count,
                 conn, inbox, headers_fetched, email_ids, pw_generated,
                 credit_card_number, pdf_details, all_extracted_data,
                 extractor_called,
                 apiResponse, amtVars, exVars, pwVars, pdfVars>>

\* lines 216-275: collect the body text and run the extractor on it.  A
\* truthy result that is not a dict makes dict.update (line 259) or .get
\* (line 262) raise, which ends the run.
ExtractBody ==
  /\ pc = "body"
  /\ CASE body = "badcharset" ->
            /\ Raise("unexpected", "decode")
            /\ UNCHANGED <<current_email_data, extractor_called>>
       [] body = "empty" ->
            /\ pc' = IF atts = <<>> THEN "emit" ELSE "pdf"
            /\ UNCHANGED <<ret, current_email_data, extractor_called>>
       [] body = "text" ->
            /\ extractor_called' = TRUE
            /\ \E response \in ResponsesFor(inbox) :
                 LET body_details_extracted ==
                       extract_financial_details("text", GEMINI_API_KEY,
                                                 response)
                 IN IF ~Truthy(body_details_extracted)
                    THEN /\ pc' = IF atts = <<>> THEN "emit" ELSE "pdf"
                         /\ UNCHANGED <<ret, current_email_data>>
                    ELSE IF body_details_extracted.k # "dict"
                    THEN /\ Raise("unexpected", "merge_body")
                         /\ UNCHANGED current_email_data
                    ELSE /\ current_email_data' =
                              [current_email_data EXCEPT
                                 !.details =
                                    DictUpdate(@, body_details_extracted.d),
                                 !.source = BodySource]
                         /\ pc' = IF EssentialsInBody(body_details_extracted.d)
                                      \/ atts = <<>>
                                   THEN "emit" ELSE "pdf"
                         /\ ret' = ret
  /\ UNCHANGED <<IMAP_CREDS, GEMINI_API_KEY, search_status, emails_to_process_count,
                 conn, inbox, headers_fetched, email_ids, pw_generated,
                 credit_card_number, queue, full_fetched, body, atts, att_no,
                 pdf_details, all_extracted_data, apiResponse, amtVars, exVars, pwVars, pdfVars>>

\* the merge of one PDF record into the running details (lines 299-312)
MergePdf(cur, record, card, n) ==
  LET decision == CardDecision(UserCardLast4(card),
                               StatementCardLast4(record))
  IN IF decision = "verified"
     THEN [cur EXCEPT !.details = DictUpdate(@, record),
                      !.source = PdfSource(n)]
     ELSE IF decision = "unverified"
     THEN [cur EXCEPT !.details = DictUpdate(@, record),
                      !.source = PdfUnverifiedSource(n)]
     ELSE cur

\* lines 278-298: one PDF attachment of the message in hand, up to the
\* extractor's answer.  A truthy answer that is not a dict makes .get
\* (line 300) raise, which ends the run.
ExtractPdf ==
  /\ pc = "pdf"
  /\ atts # <<>>
  /\ \/ /\ Head(atts) = "nopayload"
        /\ pc' = IF Tail(atts) = <<>> THEN "emit" ELSE "pdf"
        /\ atts' = Tail(atts)
        /\ att_no' = att_no + 1
        /\ UNCHANGED <<ret, pdf_details, extractor_called>>
     \/ /\ Head(atts) = "pdf"
        /\ \E pdf_text_content \in PdfTexts \ {"text"} :
             /\ pc' = IF EssentialsAfterPdf(current_email_data.details)
                          \/ Tail(atts) = <<>>
                       THEN "emit" ELSE "pdf"
             /\ atts' = Tail(atts)
             /\ att_no' = att_no + 1
             /\ UNCHANGED <<ret, pdf_details, extractor_called>>
     \/ /\ Head(atts) = "pdf"
        /\ extractor_called' = TRUE
        /\ \E response \in ResponsesFor(inbox) :
             LET answer ==
                   extract_financial_details("text", GEMINI_API_KEY, response)
             IN IF ~Truthy(answer)
                THEN /\ pc' = IF EssentialsAfterPdf(current_email_data.details)
                                  \/ Tail(atts) = <<>>
                               THEN "emit" ELSE "pdf"
                     /\ atts' = Tail(atts)
                     /\ att_no' = att_no + 1
                     /\ UNCHANGED <<ret, pdf_details>>
                ELSE IF answer.k # "dict"
                THEN /\ Raise("unexpected", "merge_pdf")
                     /\ UNCHANGED <<atts, att_no, pdf_details>>
                ELSE /\ pdf_details' = answer.d
                     /\ pc' = "verify"
                     /\ UNCHANGED <<ret, atts, att_no>>
  /\ UNCHANGED <<IMAP_CREDS, GEMINI_API_KEY, search_status, emails_to_process_count,
                 conn, inbox, headers_fetched, email_ids, pw_generated,
                 credit_card_number, queue, full_fetched, current_email_data,
                 body, all_extracted_data, apiResponse, amtVars, exVars, pwVars, pdfVars>>

\* lines 299-323: card verification, merge, and the early stop
VerifyAndMerge ==
  /\ pc = "verify"
  /\ LET merged == MergePdf(current_email_data, pdf_details,
                            credit_card_number, att_no)
     IN /\ current_email_data' = merged
        /\ pc' = IF EssentialsAfterPdf(merged.details) \/ Tail(atts) = <<>>
                  THEN "emit" ELSE "pdf"
  /\ atts' = Tail(atts)
  /\ att_no' = att_no + 1
  /\ pdf_details' = EmptyDict
  /\ UNCHANGED <<IMAP_CREDS, GEMINI_API_KEY, search_status, emails_to_process_count,
                 conn, ret, inbox, headers_fetched, email_ids, pw_generated,
                 credit_card_number, queue, full_fetched, body,
                 all_extracted_data, extractor_called, apiResponse, amtVars, exVars, pwVars, pdfVars>>

\* lines 327-335: append the email to the results if it is complete
EmitResult ==
  /\ pc = "emit"
  /\ all_extracted_data' =
       IF EssentialsPresent(current_email_data.details)
       THEN Append(all_extracted_data, current_email_data)
       ELSE all_extracted_data
  /\ queue' = Tail(queue)
  /\ current_email_data' = NoEmail
  /\ body' = "empty" /\ atts' = <<>> /\ att_no' = 0
  /\ pc' = "fetch"
  /\ UNCHANGED <<IMAP_CREDS, GEMINI_API_KEY, search_status, emails_to_process_count,
                 conn, ret, inbox, headers_fetched, email_ids, pw_generated,
                 credit_card_number, full_fetched, pdf_details,
                 extractor_called,
                 apiResponse, amtVars, exVars, pwVars, pdfVars>>

\* lines 338-340: the loop is over
Finish ==
  /\ pc = "fetch"
  /\ queue = <<>>
  /\ conn' = "LOGOUT"
  /\ ret' = ListReturn
  /\ pc' = "done"
  /\ UNCHANGED <<IMAP_CREDS, GEMINI_API_KEY, search_status, emails_to_process_count,
                 inbox, headers_fetched, email_ids, pw_generated,
                 credit_card_number, queue, full_fetched, current_email_data,
                 body, atts, att_no, pdf_details, all_extracted_data, extractor_called,
                 apiResponse, amtVars, exVars, pwVars, pdfVars>>

\* main.py lines 62-64: the value is an error object
IsErrorObject_m(extracted_info) == FALSE
IsErrorObject(extracted_info) == extracted_info.kind = "error"

\* main.py lines 59-73: the handler turns the value returned by
\* process_emails into its answer. The HTTPException of line 64 is raised
\* inside the try block, so the handler of line 70 catches it and raises the
\* status-500 exception of line 73 in its place.
ApiRespond ==
  /\ pc = "done"
  /\ apiResponse' =
       IF IsErrorObject(ret)
       THEN [kind |-> "error", status |-> 500, body |-> <<>>]
       ELSE IF all_extracted_data = <<>>
       THEN [kind |-> "message", status |-> 200, body |-> <<>>]
       ELSE [kind |-> "results", status |-> 200, body |-> all_extracted_data]
  /\ pc' = "responded"
  /\ UNCHANGED <<IMAP_CREDS, GEMINI_API_KEY, search_status, emails_to_process_count,
                 conn, ret, inbox, headers_fetched, email_ids, pw_generated,
                 credit_card_number, queue, full_fetched, current_email_data,
                 body, atts, att_no, pdf_details, all_extracted_data,
                 extractor_called,
                 amtVars, exVars, pwVars, pdfVars>>

Next ==
  \/ CheckCredentials
  \/ Connect
  \/ PreliminaryListing
  \/ Search
  \/ GeneratePasswords
  \/ SelectEmails
  \/ FetchEmail
  \/ ExtractBody
  \/ ExtractPdf
  \/ VerifyAndMerge
  \/ EmitResult
  \/ Finish
  \/ ApiRespond

Spec == Init /\ [][Next]_vars

\* ------------------------------------- format_extracted_amount alone
AmtChars == {"5", "0", ",", ".", "R", "s", " ", "x", "-", "$"}
AmtStrings == UNION {[1..n -> AmtChars] : n \in 0..MaxAmtLen}
AmountInputs ==
  {StrV(a) : a \in AmtStrings \cup {A6225, RsA6225, <<"x">> \o A6225}}
    \cup {Null, NumV(6225, 0), NumV(622500, 2)}

InitAmt ==
  /\ PipeIdle /\ ExIdle /\ PwIdle /\ PdfIdle
  /\ amtIn \in AmountInputs
  /\ amtOut = Null
  /\ amtDone = FALSE

\* one call of format_extracted_amount(amtIn)
FormatAmount ==
  /\ ~amtDone
  /\ pc = "idle"
  /\ amtOut' = format_extracted_amount(amtIn)
  /\ amtDone' = TRUE
  /\ UNCHANGED <<pipeVars, exVars, pwVars, pdfVars, amtIn>>

NextAmt == FormatAmount

SpecAmt == InitAmt /\ [][NextAmt]_vars

\* ----------------------------------- extract_financial_details alone
TextKinds == {"empty", "blank", "text"}
ExRecords ==
  {Rec(t, m, c) : t \in RawAmounts \cup {StrV(A6225)},
                  m \in RawAmounts \cup {StrV(RsA6225)},
                  c \in {Absent, StrV(C1234)}}
ExDocs ==
  {JDict(r) : r \in ExRecords}
    \cup {JList(TRUE), JList(FALSE), JStr(TRUE), JStr(FALSE), JNumber, JScalar}
ExResponses ==
  UNION {{Resp(<<Doc(j)>>), Resp(<<Ws, Doc(j), Ws>>),
          Resp(<<FenceJson, Ws, Doc(j), Ws, Fence>>),
          Resp(<<Fence, Doc(j), Fence, Ws>>),
          Resp(<<FenceJson, Doc(j)>>),
          Resp(<<Prose, Doc(j)>>)} : j \in ExDocs}
    \cup {Resp(<<>>), Resp(<<Ws>>), Resp(<<FenceJson, Ws, Fence>>),
          Resp(<<Fence>>), Resp(<<Prose>>), BackendFailure}

InitExtract ==
  /\ PipeIdle /\ AmtIdle /\ PwIdle /\ PdfIdle
  /\ exText \in TextKinds
  /\ exKey \in BOOLEAN
  /\ exResp \in ExResponses
  /\ exOut = EmptyMapping
  /\ exDone = FALSE

\* one call of extract_financial_details(exText) with config key exKey and
\* the backend answering exResp
ExtractCall ==
  /\ ~exDone
  /\ pc = "idle"
  /\ exOut' = extract_financial_details(exText, exKey, exResp)
  /\ exDone' = TRUE
  /\ UNCHANGED <<pipeVars, amtVars, pwVars, pdfVars, exText, exKey, exResp>>

NextExtract == ExtractCall

SpecExtract == InitExtract /\ [][NextExtract]_vars

\* ------------------------------ generate_potential_passwords alone
\* Text is a sequence of one-character strings; None is Null and a str is
\* StrV(text).
LowerCase ==
  <<"a", "b", "c", "d", "e", "f", "g", "h", "i", "j", "k", "l", "m",
    "n", "o", "p", "q", "r", "s", "t", "u", "v", "w", "x", "y", "z">>
UpperCase ==
  <<"A", "B", "C", "D", "E", "F", "G", "H", "I", "J", "K", "L", "M",
    "N", "O", "P", "Q", "R", "S", "T", "U", "V", "W", "X", "Y", "Z">>
ToLower(c) ==
  IF \E i \in 1..26 : UpperCase[i] = c
  THEN LowerCase[CHOOSE i \in 1..26 : UpperCase[i] = c] ELSE c
ToUpper(c) ==
  IF \E i \in 1..26 : LowerCase[i] = c
  THEN UpperCase[CHOOSE i \in 1..26 : LowerCase[i] = c] ELSE c
\* str.lower() and str.upper()
RECURSIVE Lower(_)
Lower(s) == IF s = <<>> THEN <<>> ELSE <<ToLower(Head(s))>> \o Lower(Tail(s))
RECURSIVE Upper(_)
Upper(s) == IF s = <<>> THEN <<>> ELSE <<ToUpper(Head(s))>> \o Upper(Tail(s))
\* s[:n]
Prefix(s, n) == SubSeq(s, 1, Min(n, Len(s)))
\* s[-n:] for n >= 1
Suffix(s, n) == SubSeq(s, Max(Len(s) - n, 0) + 1, Len(s))

\* length of the leading run of characters of s outside class
RECURSIVE RunLength(_, _)
RunLength(s, class) ==
  IF s = <<>> \/ Head(s) \in class THEN 0
  ELSE 1 + RunLength(Tail(s), class)

\* str.split(): the maximal runs of non-whitespace characters, in order
RECURSIVE Split(_)
Split(s) ==
  LET t == LStrip(s)
      n == RunLength(t, Whitespace)
  IN IF t = <<>> THEN <<>>
     ELSE <<SubSeq(t, 1, n)>> \o Split(SubSeq(t, n + 1, Len(t)))

\* the fields of s between occurrences of the separator sep
RECURSIVE Fields(_, _)
Fields(s, sep) ==
  LET n == RunLength(s, {sep})
  IN IF n = Len(s) THEN <<s>>
     ELSE <<SubSeq(s, 1, n)>> \o Fields(SubSeq(s, n + 2, Len(s)), sep)

AllDigits(s) == \A i \in 1..Len(s) : s[i] \in Digits

\* the texts the directives %m and %d of strptime accept: one or two digits
\* in range, for %d also a space and one digit
MonthText(s) ==
  /\ Len(s) \in {1, 2} /\ AllDigits(s)
  /\ DigitsToInt(s) \in 1..12
DayText(s) ==
  \/ /\ Len(s) \in {1, 2} /\ AllDigits(s)
     /\ DigitsToInt(s) \in 1..31
  \/ /\ Len(s) = 2 /\ s[1] = " " /\ s[2] \in Digits \ {"0"}

IsLeap(y) == y % 4 = 0 /\ (y % 100 # 0 \/ y % 400 = 0)
DaysInMonth(y, m) ==
  IF m = 2 THEN (IF IsLeap(y) THEN 29 ELSE 28)
  ELSE IF m \in {4, 6, 9, 11} THEN 30 ELSE 31

NoDate == [ok |-> FALSE, year |-> 0, month |-> 0, day |-> 0]
\* datetime.strptime(text, "%Y-%m-%d") for a str argument: ok = FALSE stands
\* for ValueError (no match of the format, unconverted data, or a date that
\* does not exist)
Strptime(text) ==
  LET f == Fields(text, "-")
  IN IF Len(f) # 3 THEN NoDate
     ELSE IF ~(Len(f[1]) = 4 /\ AllDigits(f[1]) /\ MonthText(f[2])
               /\ DayText(f[3]))
     THEN NoDate
     ELSE LET y == DigitsToInt(f[1])
              m == DigitsToInt(f[2])
              d == DigitsToInt(RemoveChars(f[3], Whitespace))
          IN IF y < 1 \/ d > DaysInMonth(y, m) THEN NoDate
             ELSE [ok |-> TRUE, year |-> y, month |-> m, day |-> d]

DigitChar(n) == CHOOSE c \in Digits : DigitVal(c) = n
RECURSIVE IntToDigits(_)
IntToDigits(n) ==
  IF n < 10 THEN <<DigitChar(n)>>
  ELSE IntToDigits(n \div 10) \o <<DigitChar(n % 10)>>
\* strftime("%d"), ("%m") and ("%y"): two digits, zero-padded
Pad2(n) == <<DigitChar((n \div 10) % 10), DigitChar(n % 10)>>
\* strftime("%Y") as the C library of a Linux build formats it: the decimal
\* year without padding, so fewer than four digits for a year below 1000
StrftimeY(year) == IntToDigits(year)

\* password_utils.generate_potential_passwords, lines 12-87: the set
\* passwords, or the exception that leaves the function. Truthiness of a
\* str-or-None argument is "a non-empty str".
PresentText(v) == v.t = "str" /\ v.s # <<>>
generate_potential_passwords_m(full_name, dob_str, mobile_number, credit_card_no) ==
  [raised |-> "",
   passwords |-> IF mobile_number.t = "str" THEN {mobile_number.s} ELSE {}]
generate_potential_passwords(full_name, dob_str, mobile_number, credit_card_no) ==
  IF full_name.t # "str"
  THEN [raised |-> "AttributeError", passwords |-> {}]     \* line 18
  ELSE IF dob_str.t # "str"
  THEN [raised |-> "TypeError", passwords |-> {}]          \* line 28
  ELSE
  LET name_parts == Split(Lower(full_name.s))
      first_name_lower ==
        IF name_parts # <<>> THEN name_parts[1] ELSE <<>>
      name_on_card_first_four_upper ==
        IF first_name_lower # <<>> THEN Upper(Prefix(first_name_lower, 4))
        ELSE <<>>
      dob_date == Strptime(dob_str.s)
      day == IF dob_date.ok THEN Pad2(dob_date.day) ELSE <<>>
      month == IF dob_date.ok THEN Pad2(dob_date.month) ELSE <<>>
      year_yy == IF dob_date.ok THEN Pad2(dob_date.year % 100) ELSE <<>>
      year_yyyy == IF dob_date.ok THEN StrftimeY(dob_date.year) ELSE <<>>
      dob_ddmm == day \o month
      last_four_card ==
        IF PresentText(credit_card_no) /\ Len(credit_card_no.s) >= 4
        THEN Suffix(credit_card_no.s, 4)
        ELSE IF PresentText(credit_card_no) THEN credit_card_no.s
        ELSE <<>>
      first_four_of_name_lower == Prefix(first_name_lower, 4)
      hdfc_card ==                                          \* lines 49-51
        IF name_on_card_first_four_upper # <<>> /\ last_four_card # <<>>
           /\ Len(last_four_card) = 4
        THEN {name_on_card_first_four_upper \o last_four_card} ELSE {}
      hdfc_dob ==                                           \* lines 53-55
        IF name_on_card_first_four_upper # <<>> /\ dob_ddmm # <<>>
           /\ Len(dob_ddmm) = 4
        THEN {name_on_card_first_four_upper \o dob_ddmm} ELSE {}
      name_dob ==                                           \* lines 67-74
        IF first_four_of_name_lower # <<>> /\ day # <<>> /\ month # <<>>
        THEN {first_four_of_name_lower \o day \o month,
              Upper(first_four_of_name_lower) \o day \o month}
             \cup (IF year_yy # <<>>
                   THEN {first_four_of_name_lower \o day \o month
                           \o year_yy}
                   ELSE {})
        ELSE {}
      name_card ==                                          \* lines 77-79
        IF first_four_of_name_lower # <<>> /\ last_four_card # <<>>
        THEN {first_four_of_name_lower \o last_four_card,
              Upper(first_four_of_name_lower) \o last_four_card}
        ELSE {}
      dob_only ==                                           \* lines 81-84
        (IF day # <<>> /\ month # <<>> /\ year_yy # <<>>
         THEN {day \o month \o year_yy} ELSE {})
        \cup (IF day # <<>> /\ month # <<>> /\ year_yyyy # <<>>
              THEN {day \o month \o year_yyyy} ELSE {})
  IN [raised |-> "",
      passwords |->
        (hdfc_card \cup hdfc_dob \cup name_dob \cup name_card
           \cup dob_only) \ {<<>>}]                          \* line 87

\* list(passwords), line 93: the elements of the set in an order that the
\* hashing of the run decides
RECURSIVE Orderings(_)
Orderings(S) ==
  IF S = {} THEN {<<>>}
  ELSE UNION {{<<x>> \o p : p \in Orderings(S \ {x})} : x \in S}

PwNames ==
  {Null, StrV(<<>>), StrV(<<" ">>),
   StrV(<<"A", "l">>),
   StrV(<<"A", "m", "i", "t", " ", "S", "h", "a", "r", "m", "a">>)}
D_1990_07_15 == <<"1", "9", "9", "0", "-", "0", "7", "-", "1", "5">>
D_15_07_1990 == <<"1", "5", "-", "0", "7", "-", "1", "9", "9", "0">>
D_1990_7_5 == <<"1", "9", "9", "0", "-", "7", "-", "5">>
D_1990_02_30 == <<"1", "9", "9", "0", "-", "0", "2", "-", "3", "0">>
D_2000_02_29 == <<"2", "0", "0", "0", "-", "0", "2", "-", "2", "9">>
D_0990_07_15 == <<"0", "9", "9", "0", "-", "0", "7", "-", "1", "5">>
PwDobs ==
  {Null, StrV(<<>>), StrV(D_1990_07_15), StrV(D_15_07_1990),
   StrV(D_1990_7_5), StrV(D_1990_02_30), StrV(D_2000_02_29),
   StrV(D_0990_07_15)}
PwMobiles ==
  {StrV(<<"9", "8", "7", "6">>), StrV(<<"1", "5", "0", "7">>)}
PwCards == {Null} \cup {StrV(c) : c \in UserCards}

InitPw ==
  /\ PipeIdle /\ AmtIdle /\ ExIdle /\ PdfIdle
  /\ pwIn \in [full_name : PwNames, dob_str : PwDobs,
                mobile_number : PwMobiles, credit_card_number : PwCards]
  /\ pwOut = NoOutcome
  /\ pwDone = FALSE

\* one call generate_potential_passwords(full_name, dob_str, mobile_number,
\* credit_card_number)
GeneratePw ==
  /\ ~pwDone
  /\ pc = "idle"
  /\ LET out == generate_potential_passwords(pwIn.full_name, pwIn.dob_str,
                                             pwIn.mobile_number,
                                             pwIn.credit_card_number)
     IN \E order \in Orderings(out.passwords) :
          pwOut' = [raised |-> out.raised, passwords |-> order]
  /\ pwDone' = TRUE
  /\ UNCHANGED <<pipeVars, amtVars, exVars, pdfVars, pwIn>>

NextPw == GeneratePw

SpecPw == InitPw /\ [][NextPw]_vars

\* ------------------------------------- extract_text_from_pdf alone
\* The document behind pdf_bytes: whether PdfReader can open it, whether it
\* is encrypted, the passwords that unlock it (user and owner password),
\* the candidates on which reader.decrypt raises, and what extracting its
\* pages does: "ok" yields text, "blank" yields no text, "raises" is a page
\* whose content makes page.extract_text() raise.
MaxCandidates == 3
PdfPasswordTexts == {"pw_a", "pw_b", "pw_c"}
PageKinds == {"ok", "blank", "raises"}
Documents ==
  {NoDocument}
    \cup {[readable |-> TRUE, encrypted |-> FALSE, accepts |-> {},
           raises |-> {}, pages |-> p] : p \in PageKinds}
    \cup {[readable |-> TRUE, encrypted |-> TRUE, accepts |-> a,
           raises |-> r, pages |-> p] :
             a \in (SUBSET PdfPasswordTexts) \ {{}},
             r \in SUBSET PdfPasswordTexts, p \in PageKinds}
CandidateLists ==
  UNION {[1..n -> PdfPasswordTexts] : n \in 0..MaxCandidates}

InitPdf ==
  /\ PipeIdle /\ AmtIdle /\ ExIdle /\ PwIdle
  /\ pdfDoc \in Documents
  /\ pdfDoc.raises \cap pdfDoc.accepts = {}
  /\ pdfPasswords \in CandidateLists
  /\ pdfPc = "open"
  /\ pdfNext = 0
  /\ attempts = <<>>
  /\ pdfOut = "unset"

\* lines 22-30 and 39-47: the text of all pages; "" when no page has text
PagesText(doc) == IF doc.pages = "ok" THEN "text" ELSE "empty"

\* line 33: except Exception catches whatever the attempt raised
InnerExceptCatches_m(raised_in) == FALSE
InnerExceptCatches(raised_in) == TRUE

\* lines 11-15 and 38-53: open the document; an unreadable one ends in one
\* of the outer handlers, an unencrypted one is extracted at once
OpenPdf ==
  /\ pdfPc = "open"
  /\ IF ~pdfDoc.readable
     THEN pdfOut' = "None" /\ pdfPc' = "done" /\ pdfNext' = pdfNext
     ELSE IF ~pdfDoc.encrypted
     THEN /\ pdfOut' = IF pdfDoc.pages = "raises" THEN "None"
                       ELSE PagesText(pdfDoc)
          /\ pdfPc' = "done" /\ pdfNext' = pdfNext
     ELSE pdfPc' = "loop" /\ pdfNext' = 1 /\ pdfOut' = pdfOut
  /\ UNCHANGED <<pipeVars, amtVars, exVars, pwVars, pdfDoc, pdfPasswords,
                 attempts>>

\* lines 17-35: one iteration of the loop over potential_passwords. The try
\* block of line 20 holds both reader.decrypt and the page extraction, so an
\* exception of either is caught at line 33 and the loop goes on.
TryPassword ==
  /\ pdfPc = "loop"
  /\ pdfNext <= Len(pdfPasswords)
  /\ LET password == pdfPasswords[pdfNext]
         unlocked == password \in pdfDoc.accepts
         raised_in ==
           IF password \in pdfDoc.raises THEN "decrypt"
           ELSE IF unlocked /\ pdfDoc.pages = "raises" THEN "extract_text"
           ELSE ""
     IN /\ attempts' = Append(attempts, password)
        /\ IF raised_in # ""
           THEN IF InnerExceptCatches(raised_in)
                THEN pdfNext' = pdfNext + 1 /\ UNCHANGED <<pdfPc, pdfOut>>
                ELSE pdfOut' = "None" /\ pdfPc' = "done"
                     /\ pdfNext' = pdfNext
           ELSE IF unlocked
           THEN pdfOut' = PagesText(pdfDoc) /\ pdfPc' = "done"
                /\ pdfNext' = pdfNext
           ELSE pdfNext' = pdfNext + 1 /\ UNCHANGED <<pdfPc, pdfOut>>
  /\ UNCHANGED <<pipeVars, amtVars, exVars, pwVars, pdfDoc, pdfPasswords>>

\* lines 36-37: every candidate failed
AllFailed ==
  /\ pdfPc = "loop"
  /\ pdfNext > Len(pdfPasswords)
  /\ pdfOut' = "None"
  /\ pdfPc' = "done"
  /\ UNCHANGED <<pipeVars, amtVars, exVars, pwVars, pdfDoc, pdfPasswords,
                 pdfNext, attempts>>

NextPdf ==
  \/ OpenPdf
  \/ TryPassword
  \/ AllFailed

SpecPdf == InitPdf /\ [][NextPdf]_vars

\* =============================================================== claims
NonNull(v) == v.t \in {"num", "str"}
Complete(d) ==
  NonNull(d["total_amount_due"]) /\ NonNull(d["minimum_amount_due"])
Last4(card) == SubSeq(card, Len(card) - 3, Len(card))
CardField == pdf_details["card_last_4_digits"]

\* C1: an entry is appended to the result list exactly by the step that
\* closes an email whose merged details have total_amount_due and
\* minimum_amount_due both non-null; no other step changes the list, and no
\* entry of the list lacks either field.
C1_EmitIffEssentials ==
  [][/\ pc = "emit" /\ Complete(current_email_data.details)
          => all_extracted_data' =
               Append(all_extracted_data, current_email_data)
     /\ ~(pc = "emit" /\ Complete(current_email_data.details))
          => all_extracted_data' = all_extracted_data
     /\ \A i \in 1..Len(all_extracted_data') :
          Complete(all_extracted_data'[i].details)]_vars

\* an email with only one essential field is about to be closed after an
\* earlier email was emitted
C1_Witness ==
  /\ pc = "emit"
  /\ Len(all_extracted_data) = 1
  /\ NonNull(current_email_data.details["total_amount_due"])
  /\ ~NonNull(current_email_data.details["minimum_amount_due"])

\* C2: when the PDF record carries card digits that differ from the last 4
\* digits of a user card of at least 4 digits, the merge step leaves the
\* details and the source tag of the email unchanged and goes on to the
\* next attachment (or to the end of the email when there is none).
C2_MismatchDiscarded ==
  [][(/\ pc = "verify"
      /\ CardField.t = "str"
      /\ Strip(CardField.s) # <<>>
      /\ Len(credit_card_number) >= 4
      /\ Strip(CardField.s) # Last4(credit_card_number))
       => /\ current_email_data' = current_email_data
          /\ atts' = Tail(atts)
          /\ pc' = IF Tail(atts) = <<>> THEN "emit" ELSE "pdf"]_vars

\* a PDF record with both amounts and card 9999 awaits the merge for a user
\* whose card ends in 1234, after the body gave a partial record
C2_Witness ==
  /\ pc = "verify"
  /\ CardField = StrV(C9999)
  /\ Len(credit_card_number) >= 4
  /\ Last4(credit_card_number) = C1234
  /\ Complete(pdf_details)
  /\ current_email_data.source.tag = "email_body_gemini"

\* C3: when the PDF record's card_last_4_digits is absent, null or empty,
\* or the user's card number has fewer than 4 characters, the merge step
\* merges every field of the record into the details and sets the
\* unverified-PDF source tag.
C3_UnverifiedMerge ==
  [][(/\ pc = "verify"
      /\ \/ CardField.t \in {"absent", "null"}
         \/ CardField.t = "str" /\ CardField.s = <<>>
         \/ Len(credit_card_number) < 4)
       => /\ \A k \in Keys :
               current_email_data'.details[k] =
                 IF pdf_details[k].t # "absent" THEN pdf_details[k]
                 ELSE current_email_data.details[k]
          /\ current_email_data'.source.tag = "pdf_gemini_card_unverified"]_vars

\* C4: format_extracted_amount of "6,225.00" and of "Rs. 6,225.00" is 6225.0;
\* in general, of a text that reads as digits, a decimal point and digits
\* once currency signs, commas and whitespace are removed, it is the value
\* of that decimal number.
C4_AmountNormalized ==
  amtDone /\ amtIn.t = "str" =>
    /\ amtIn.s \in {A6225, RsA6225} => amtOut = NumV(6225, 0)
    /\ LET plain == RemoveChars(amtIn.s,
                       (CurrencyClass \ {"."}) \cup Whitespace)
       IN (/\ PyFloat(plain).ok
           /\ plain[1] \in Digits
           /\ plain[Len(plain)] \in Digits
           /\ \E i \in 1..Len(plain) : plain[i] = ".")
            => amtOut = PyFloat(plain).v

\* C5: every entry of the result list has a numeric total_amount_due and a
\* numeric minimum_amount_due.
C5_EmittedNumeric ==
  \A i \in 1..Len(all_extracted_data) :
    /\ all_extracted_data[i].details["total_amount_due"].t = "num"
    /\ all_extracted_data[i].details["minimum_amount_due"].t = "num"

\* the emails_to_process_count most recent ids of the search result
Selected ==
  {email_ids[i] : i \in {j \in 1..Len(email_ids) :
                           j > Len(email_ids) - emails_to_process_count}}
Matching == {email_ids[i] : i \in 1..Len(email_ids)}

\* C6: once the loop has been set up, only the min(M, N) most recent
\* matching messages are ever fetched in full, no matching message outside
\* them has been fetched in any way (headers included), and a run that
\* returns its list has fetched exactly those.
C6_PerRunCap ==
  (\/ pc \in {"fetch", "body", "pdf", "verify", "emit"}
   \/ pc = "done" /\ ret.kind = "list" /\ email_ids # <<>>)
    => /\ full_fetched \subseteq Selected
       /\ headers_fetched \cap (Matching \ Selected) = {}
       /\ ret.kind = "list" => full_fetched = Selected

\* C7: process_emails never ends with a connection it opened and did not
\* log out of.
C7_ConnectionClosed ==
  pc = "done" /\ conn # "none" => conn = "LOGOUT"

\* C8: process_emails never returns an error object because of a failure
\* confined to one email or one attachment (a part that cannot be decoded,
\* an extractor answer that is JSON but not a mapping) or because of the
\* password derivation.
C8_ItemFailuresAbsorbed ==
  ret.kind = "error" =>
    ret.origin \notin {"decode", "merge_body", "merge_pdf", "passwords"}

\* C9: extract_financial_details returns a mapping, and the empty mapping
\* for empty text, a missing API key, a failed backend call, an empty
\* response and a response that is not a JSON object.
C9_AlwaysMapping ==
  exDone =>
    /\ exOut.k = "dict"
    /\ (\/ exText # "text" \/ ~exKey \/ exResp.raises
        \/ CleanResponse(exResp.text) = <<>>
        \/ ~JsonLoads(CleanResponse(exResp.text)).ok
        \/ JsonLoads(CleanResponse(exResp.text)).v.k # "dict")
         => exOut = EmptyMapping

\* C10: a run with missing IMAP credentials, a failed login or a search
\* status other than OK ends with an error object and has fetched no
\* message in full, generated no passwords and called no extractor; with
\* missing credentials no connection was made.
C10_FatalErrors ==
  /\ (~IMAP_CREDS \/ conn = "NONAUTH" \/ search_status \notin {"", "OK"})
       => /\ full_fetched = {}
          /\ ~pw_generated
          /\ ~extractor_called
          /\ pc \in {"done", "responded"} => ret.kind = "error"
          /\ pc \in {"start", "done", "responded"}
  /\ ~IMAP_CREDS => conn = "none"

\* the search answered NO and the run has returned
C10_Witness ==
  /\ pc = "done"
  /\ search_status = "NO"
  /\ ret = ErrorReturn("search_status", "search")
  /\ conn = "LOGOUT"

\* C11: a fetch that does not deliver a message (status not OK, no data, no
\* content bytes, or the fetch command raising) skips that message only: the
\* loop goes on with the next id, and the results and the return value are
\* left as they were.
C11_FetchFailureSkips ==
  [][(pc = "fetch" /\ queue # <<>> /\ pc' # "body")
       => /\ pc' = "fetch"
          /\ queue' = Tail(queue)
          /\ all_extracted_data' = all_extracted_data
          /\ ret' = ret]_vars

\* C18: the result list is ordered most recent first: of two results the one
\* whose message has the larger position in the search result comes earlier,
\* and no message has more than one result.
C18_MostRecentFirst ==
  \A i \in 1..Len(all_extracted_data) :
    \A j \in 1..Len(all_extracted_data) :
      i < j => all_extracted_data[i].id > all_extracted_data[j].id

\* two messages of the run have each yielded a result
C18_Witness ==
  /\ Len(all_extracted_data) >= 2
  /\ pc = "done" /\ ret.kind = "list"

\* C20: when the extractor's answer for the email body has total_amount_due
\* and minimum_amount_due both non-null, the email goes straight to the
\* emitting step with the email-body source tag and its attachments are left
\* unopened; the emitting step calls no extractor and appends the record as
\* it stands.
C20_BodyPriority ==
  [][/\ (pc = "body" /\ Complete(current_email_data'.details))
          => /\ pc' = "emit"
             /\ current_email_data'.source = BodySource
             /\ atts' = atts /\ att_no' = att_no
             /\ pdf_details' = pdf_details
     /\ pc = "emit"
          => /\ pc' = "fetch"
             /\ extractor_called' = extractor_called
             /\ all_extracted_data' \in
                  {all_extracted_data,
                   Append(all_extracted_data, current_email_data)}]_vars

\* an email with a PDF attachment is about to be emitted from its body alone
C20_Witness ==
  /\ pc = "emit"
  /\ Complete(current_email_data.details)
  /\ current_email_data.source = BodySource
  /\ atts # <<>> /\ Head(atts) = "pdf" /\ att_no = 1

\* C19: the API caller receives exactly one of a non-empty result list, an
\* explicit error, or the "no relevant details found" message; when
\* process_emails ended with an error the answer is the error and carries
\* none of the results collected before it.
C19_OneAnswer ==
  /\ pc # "responded" => apiResponse = NoResponse
  /\ pc = "responded" =>
       /\ apiResponse.kind \in {"results", "error", "message"}
       /\ apiResponse.kind = "results" <=>
            (ret.kind = "list" /\ all_extracted_data # <<>>)
       /\ apiResponse.kind = "results" =>
            apiResponse.body = all_extracted_data
       /\ apiResponse.kind = "message" <=>
            (ret.kind = "list" /\ all_extracted_data = <<>>)
       /\ apiResponse.kind = "error" <=> ret.kind = "error"
       /\ apiResponse.kind # "results" => apiResponse.body = <<>>

\* the handler has answered a run that had collected a result and then met a
\* fatal error
C19_Witness ==
  /\ pc = "responded"
  /\ ret.kind = "error"
  /\ all_extracted_data # <<>>
  /\ apiResponse.kind = "error"

\* what generate_potential_passwords was called with and what it returned
PwReturned == pwDone /\ pwOut.raised = ""
PwSet == {pwOut.passwords[i] : i \in 1..Len(pwOut.passwords)}
DobValid == pwIn.dob_str.t = "str" /\ Strptime(pwIn.dob_str.s).ok
Dob == Strptime(pwIn.dob_str.s)
DDMM == Pad2(Dob.day) \o Pad2(Dob.month)
YY == Pad2(Dob.year % 100)
YYYY == Pad2(Dob.year \div 100) \o Pad2(Dob.year % 100)
NameWords ==
  IF pwIn.full_name.t = "str" THEN Split(pwIn.full_name.s) ELSE <<>>
First4Lower == Lower(Prefix(NameWords[1], 4))
First4Upper == Upper(Prefix(NameWords[1], 4))
CardText ==
  IF pwIn.credit_card_number.t = "str" THEN pwIn.credit_card_number.s
  ELSE <<>>
EndsWith(p, tail) == Len(p) >= Len(tail) /\ Suffix(p, Len(tail)) = tail

\* C12: generate_potential_passwords never raises, whatever arguments are
\* absent (None or empty name, None or malformed date of birth, missing or
\* short card number); when the date of birth cannot be parsed the passwords
\* it returns are the name-and-card ones only.
C12_NeverRaises ==
  pwDone =>
    /\ pwOut.raised = ""
    /\ ~DobValid =>
         \A p \in PwSet : CardText # <<>> /\ EndsWith(p, Suffix(CardText, 4))

\* C13: with a valid YYYY-MM-DD date of birth the returned passwords include
\* DDMMYY and DDMMYYYY, and when the full name has a word they are non-empty
\* and include the first (up to) four letters of the first name in uppercase
\* followed by DDMM.
C13_DobPatterns ==
  (PwReturned /\ DobValid) =>
    /\ DDMM \o YY \in PwSet
    /\ DDMM \o YYYY \in PwSet
    /\ NameWords # <<>> =>
         (pwOut.passwords # <<>> /\ First4Upper \o DDMM \in PwSet)

\* C14: the returned list has no empty string and no entry twice, and as a
\* set it is the same whatever the mobile number is.
C14_SetOfInputs ==
  PwReturned =>
    /\ \A i \in 1..Len(pwOut.passwords) : pwOut.passwords[i] # <<>>
    /\ \A i \in 1..Len(pwOut.passwords) :
         \A j \in 1..Len(pwOut.passwords) :
           i # j => pwOut.passwords[i] # pwOut.passwords[j]
    /\ \A mobile \in PwMobiles \cup {Null} :
         PwSet = generate_potential_passwords(
                   pwIn.full_name, pwIn.dob_str, mobile,
                   pwIn.credit_card_number).passwords

\* the call returned all seven patterns while the mobile number reads like
\* the DDMM of the date of birth
C14_Witness ==
  /\ PwReturned
  /\ Len(pwOut.passwords) = 7
  /\ pwIn.mobile_number = StrV(<<"1", "5", "0", "7">>)
  /\ pwIn.dob_str = StrV(D_1990_07_15)

\* C15: with a card number of fewer than 4 characters no returned password
\* is the name part followed by the card digits; with a longer card number
\* the name part is followed by exactly its last 4 characters, never by a
\* shorter or longer tail of it.
C15_CardTail ==
  (PwReturned /\ NameWords # <<>> /\ CardText # <<>>) =>
    \A k \in 1..Len(CardText) :
      LET tail == Suffix(CardText, k)
      IN (Len(CardText) < 4 \/ k # 4) =>
           /\ First4Lower \o tail \notin PwSet
           /\ First4Upper \o tail \notin PwSet

UnlockingAt(i) == pdfPasswords[i] \in pdfDoc.accepts

\* C16: on an encrypted document the candidates are tried in list order,
\* one at a time; the attempts end with the first candidate that unlocks the
\* document, so no attempt but the last was made with an unlocking password
\* and the loop ends early only by such an attempt; a candidate on which
\* decrypt raises is passed over like a wrong one; on a document that is not
\* encrypted no candidate is tried.
C16_FirstSuccessStops ==
  /\ Len(attempts) <= Len(pdfPasswords)
  /\ attempts = SubSeq(pdfPasswords, 1, Len(attempts))
  /\ \A i \in 1..(Len(attempts) - 1) : ~UnlockingAt(i)
  /\ ~(pdfDoc.readable /\ pdfDoc.encrypted) => attempts = <<>>
  /\ (pdfPc = "done" /\ pdfDoc.readable /\ pdfDoc.encrypted
        /\ Len(attempts) < Len(pdfPasswords))
       => UnlockingAt(Len(attempts))

\* the text of the document can be had: it opens, its pages can be
\* extracted and, if it is encrypted, a candidate unlocks it
Extractable ==
  /\ pdfDoc.readable
  /\ pdfDoc.pages # "raises"
  /\ pdfDoc.encrypted => \E i \in 1..Len(pdfPasswords) : UnlockingAt(i)

\* C17: extract_text_from_pdf always returns, and returns None exactly when
\* the text cannot be had: an unreadable or corrupt document, or an
\* encrypted one none of whose candidates (an empty list included) unlocks
\* it; when an unlocking password stands anywhere in the list it returns
\* the text of the pages.
C17_NoneIffImpossible ==
  pdfPc = "done" =>
    /\ pdfOut \in {"None", "text", "empty"}
    /\ Extractable => pdfOut = PagesText(pdfDoc)
    /\ ~Extractable => pdfOut = "None"

\* the third candidate unlocked the document after a wrong one and one on
\* which decrypt raised
C17_Witness ==
  /\ pdfPc = "done"
  /\ pdfOut = "text"
  /\ pdfDoc.encrypted
  /\ Len(attempts) = 3
  /\ attempts[2] \in pdfDoc.raises
  /\ attempts[1] \notin pdfDoc.raises \cup pdfDoc.accepts

\* C21: the PDF attachments of an email are taken one at a time in discovery
\* order; once the running details have both essential fields non-null
\* after an attachment the email goes to the emitting step with the later
\* attachments unopened, and while they are incomplete the next attachment
\* is taken, until none is left.
C21_EarlyStop ==
  [][LET stop == Complete(current_email_data'.details) \/ Tail(atts) = <<>>
     IN  pc \in {"pdf", "verify"} =>
           IF pc = "pdf" /\ pc' = "verify"
           THEN atts' = atts /\ att_no' = att_no
           ELSE (atts' = Tail(atts)) /\ (att_no' = att_no + 1)
                /\ (pc' = IF stop THEN "emit" ELSE "pdf")
    ]_vars

\* the PDF record in hand is merged: its card check says verified or
\* unverified
PdfMerged ==
  CardDecision(UserCardLast4(credit_card_number),
               StatementCardLast4(pdf_details)) # "mismatch"

\* C22: when the running details come from the email body and each
\* essential field is non-null in them or in a merged PDF record, the merge
\* leaves both essential fields non-null and the email goes to the emitting
\* step; and no merge turns a field that was non-null into null.
C22_PdfCompletesBody ==
  [][pc = "verify" =>
       /\ (/\ PdfMerged
           /\ current_email_data.source = BodySource
           /\ \A k \in Essential :
                NonNull(current_email_data.details[k])
                  \/ NonNull(pdf_details[k]))
            => (Complete(current_email_data'.details) /\ pc' = "emit")
       /\ \A k \in Keys :
            NonNull(current_email_data.details[k])
              => NonNull(current_email_data'.details[k])
    ]_vars

\* the card check of the PDF record in hand
PdfDecision ==
  CardDecision(UserCardLast4(credit_card_number),
               StatementCardLast4(pdf_details))

\* C23: no record of the result list has the source tag "unknown", and a
\* record in hand with that tag has no details; the tag is set by the step
\* that merges an extraction and names it: the email body, or the PDF in
\* hand as verified or unverified; a PDF that is discarded (mismatching
\* card, no payload, no text or an empty answer) leaves the record as it
\* was, and the emitting step appends the record unchanged.
C23_SourceTag ==
  [][LET src == current_email_data'.source
     IN /\ \A i \in 1..Len(all_extracted_data') :
             all_extracted_data'[i].source.tag # "unknown"
        /\ src = Unknown => current_email_data'.details = EmptyDict
        /\ pc = "body" =>
             (current_email_data' = current_email_data \/ src = BodySource)
        /\ pc = "pdf" => current_email_data' = current_email_data
        /\ (pc = "verify" /\ PdfDecision = "verified") =>
             src = [tag |-> "pdf_gemini", att |-> att_no]
        /\ (pc = "verify" /\ PdfDecision = "unverified") =>
             src = [tag |-> "pdf_gemini_card_unverified", att |-> att_no]
        /\ (pc = "verify" /\ PdfDecision = "mismatch") =>
             current_email_data' = current_email_data
        /\ pc = "emit" =>
             all_extracted_data' \in
               {all_extracted_data,
                Append(all_extracted_data, current_email_data)}
    ]_vars

\* an email is about to be emitted with the tag of its second PDF, merged
\* unverified after the body and the first PDF
C23_Witness ==
  /\ pc = "emit"
  /\ Complete(current_email_data.details)
  /\ current_email_data.source =
       [tag |-> "pdf_gemini_card_unverified", att |-> 2]
  /\ body = "text"

====
